---- MODULE Spec2Model ----
(***************************************************************************)
(* Model of the matching engine (internal/engine/matching.go), its order   *)
(* types, its liquidity-pool collaborator and the HTTP endpoint in front   *)
(* of it (cmd/main.go).                                                    *)
(*                                                                         *)
(* Numbers: Go float64 prices and quantities are modelled as exact         *)
(* integers, and the one division of the code (the executed price) as an   *)
(* exact rational in lowest terms; float64 rounding is not modelled.       *)
(* The pass-through tags Trader, Leverage, MarginType and Expiration are   *)
(* never read by the engine and are left out of the Order record.          *)
(*                                                                         *)
(* Spec     : requests served one after the other, a book of up to MaxBook *)
(*            resting entries of one asset, every kind of market request.  *)
(* SpecWide : requests served one after the other, every asset, side, type *)
(*            and threshold pair, a book of up to MaxWideBook entries.     *)
(* SpecConc : the handler goroutines of the HTTP server run ProcessOrder   *)
(*            at the same time, step by step, on the shared book.          *)
(* SpecPhases : one handler runs ProcessOrder step by step, one request    *)
(*            after the other; SpecPhasesFair adds that a running call     *)
(*            keeps taking its steps.                                      *)
(***************************************************************************)
EXTENDS Integers, Sequences, FiniteSets, TLC

\* ---------------------------------------------------------------- bounds
\* resting entries the book holds under Spec
MaxBook == 2

\* resting entries the book holds under SpecWide
MaxWideBook == 1

\* resting entries the book holds under SpecConc
MaxConcBook == 1

\* handler goroutines serving requests at the same time under SpecConc
MaxHandlers == 2

MaxAvailable == 2

\* resting entries the book holds under SpecPhases
MaxPhaseBook == 2

\* ------------------------------------------------------- input domains
Market == "Market"

Limit == "Limit"

Assets == {"BTC", "ETH"}

OrderIDs == {""}

Prices == {1, 2}

\* a reference price of 0 is what Client.GetCurrentPrice returns on error
RefPrices == {0} \cup Prices

Amounts == {0, 1, 2}

\* the quantities of the requests of SpecWide
WideAmounts == {0, 1}

\* 0 is an inactive threshold
Thresholds == {0, 1}

VARIABLES
    BuyOrders,    \* e.orderBook.BuyOrders
    SellOrders,   \* e.orderBook.SellOrders
    lpNil,        \* e.liquidityPool == nil
    last,         \* the ProcessOrder call being answered: its request, what it did, its outcome
    g             \* SpecConc: the ProcessOrder call of each handler goroutine, step by step

vars == <<BuyOrders, SellOrders, lpNil, last, g>>

\* ------------------------------------------------------------ helpers
min(a, b) == IF a < b THEN a ELSE b

RECURSIVE GCD(_, _)
GCD(a, b) == IF b = 0 THEN a ELSE GCD(b, a % b)

\* the float64 quotient n / d (d > 0, n >= 0) as an exact rational in lowest terms
Quot(n, d) == LET c == GCD(n, d) IN [num |-> n \div c, den |-> d \div c]

\* the float64 value n
Num(n) == [num |-> n, den |-> 1]

Order(id, price, amount, type, isBuy, asset, sl, tp) ==
    [ID |-> id, Price |-> price, Amount |-> amount, InitialAmount |-> amount,
     FilledAmount |-> 0, Type |-> type, IsBuyOrder |-> isBuy, Asset |-> asset,
     StopLossPrice |-> sl, TakeProfitPrice |-> tp]

MatchResult(success, filled, remaining, price, message) ==
    [Success |-> success, FilledAmount |-> filled, RemainingAmount |-> remaining,
     ExecutedPrice |-> price, Message |-> message]

\* --------------------------------------------------- trigger evaluator
\* the rule with the take profit of a sell compared downwards
checkStopLossAndTakeProfit_sellTakeProfitBelow(order, currentPrice) ==
    IF order.IsBuyOrder
    THEN (order.StopLossPrice > 0 /\ currentPrice <= order.StopLossPrice) \/
         (order.TakeProfitPrice > 0 /\ currentPrice >= order.TakeProfitPrice)
    ELSE (order.StopLossPrice > 0 /\ currentPrice >= order.StopLossPrice) \/
         (order.TakeProfitPrice > 0 /\ currentPrice <= order.TakeProfitPrice)

checkStopLossAndTakeProfit(order, currentPrice) ==
    IF order.IsBuyOrder
    THEN IF order.StopLossPrice > 0 /\ currentPrice <= order.StopLossPrice
         THEN TRUE
         ELSE IF order.TakeProfitPrice > 0 /\ currentPrice >= order.TakeProfitPrice
              THEN TRUE
              ELSE FALSE
    ELSE IF order.StopLossPrice > 0 /\ currentPrice >= order.StopLossPrice
         THEN TRUE
         ELSE IF order.TakeProfitPrice > 0 /\ currentPrice >= order.TakeProfitPrice
              THEN TRUE
              ELSE FALSE

\* ------------------------------------------------------------ the book
\* the less function handed to sort.Slice for an incoming order
sortLess(order, a, b) ==
    IF order.IsBuyOrder THEN a.Price < b.Price ELSE a.Price > b.Price

\* a walk over the slice in the order it was left in
sortSlice_unsorted(order, orders) ==
    {[i \in 1..Len(orders) |-> orders[p[i]]] : p \in Permutations(1..Len(orders))}

\* sort.Slice is not stable: every arrangement of the slice that is sorted
\* under the less function is a possible result
sortSlice(order, orders) ==
    LET n == Len(orders)
        arranged == {[i \in 1..n |-> orders[p[i]]] : p \in Permutations(1..n)}
    IN {s \in arranged : \A i, j \in 1..n : i < j => ~sortLess(order, s[j], s[i])}

\* a cleanup that also drops the entries that carry a stop loss
cleanupOrders_dropsStopLoss(orders) ==
    SelectSeq(orders, LAMBDA o : o.FilledAmount < o.Amount /\ o.StopLossPrice = 0)

\* a cleanup whose comparison keeps the entries that are exactly filled
cleanupOrders_keepFilled(orders) ==
    SelectSeq(orders, LAMBDA o : o.FilledAmount <= o.Amount)

cleanupOrders(orders) ==
    SelectSeq(orders, LAMBDA o : o.FilledAmount < o.Amount)

\* ------------------------------------------------------ matching walk
\* a break that already stops at a resting price equal to the limit
limitBreak_atLimit(order, matched) ==
    order.Type = Limit /\
    ((order.IsBuyOrder /\ matched.Price >= order.Price) \/
     (~order.IsBuyOrder /\ matched.Price <= order.Price))

\* a break that checks the limit of incoming buys only
limitBreak_buyOnly(order, matched) ==
    order.Type = Limit /\ order.IsBuyOrder /\ matched.Price > order.Price

\* the break of the walk: the resting price is worse than the incoming limit
limitBreak(order, matched) ==
    order.Type = Limit /\
    ((order.IsBuyOrder /\ matched.Price > order.Price) \/
     (~order.IsBuyOrder /\ matched.Price < order.Price))

\* a fill accounted at the price of the incoming request
fillPrice_incoming(order, matched) == order.Price

\* the price a book fill is accounted at in weightedSum
fillPrice(order, matched) == matched.Price

\* a fill that takes all the resting request has left
matchAmountOf_wholeResting(remainingAmount, matched) ==
    matched.Amount - matched.FilledAmount

\* the quantity of one book fill
matchAmountOf(remainingAmount, matched) ==
    min(remainingAmount, matched.Amount - matched.FilledAmount)

\* one record of the fill trace: the fill and the resting order it was taken from
Fill(order, matched, matchAmount) ==
    [price |-> fillPrice(order, matched), amount |-> matchAmount,
     restPrice |-> matched.Price, restIsBuy |-> matched.IsBuyOrder,
     restAsset |-> matched.Asset, restLeft |-> matched.Amount - matched.FilledAmount]

\* the for loop of matchOrders from index i on; st holds the loop's variables
RECURSIVE matchLoop(_, _, _)
matchLoop(order, i, st) ==
    IF ~(i <= Len(st.orders) /\ st.remainingAmount > 0) THEN st
    ELSE LET matched == st.orders[i] IN
         IF matched.FilledAmount >= matched.Amount THEN matchLoop(order, i + 1, st)
         ELSE IF limitBreak(order, matched) THEN st
         ELSE LET matchAmount == matchAmountOf(st.remainingAmount, matched) IN
              IF matchAmount > 0
              THEN matchLoop(order, i + 1,
                     [orders |-> [st.orders EXCEPT ![i].FilledAmount = @ + matchAmount],
                      remainingAmount |-> st.remainingAmount - matchAmount,
                      filledAmount |-> st.filledAmount + matchAmount,
                      orderbookFilled |-> st.orderbookFilled + matchAmount,
                      weightedSum |-> st.weightedSum + matchAmount * fillPrice(order, matched),
                      fills |-> Append(st.fills, Fill(order, matched, matchAmount))])
              ELSE matchLoop(order, i + 1, st)

\* the summary of matchOrders: its format and its arguments
formatMatchMessage(order, filledAmount, orderbookFilled, lpFilled) ==
    <<"Order %s: Initial: %.2f, Filled: %.2f (%.2f from orderbook, %.2f from LP)",
      order.ID, order.InitialAmount, filledAmount, orderbookFilled, lpFilled>>

\* an outcome that reports success as soon as anything was filled
matchOutcome_successOnAnyFill(order, st) ==
    [orders |-> cleanupOrders(st.orders),
     fills |-> st.fills,
     result |-> MatchResult(st.filledAmount > 0, st.filledAmount, st.remainingAmount,
                            IF st.filledAmount > 0
                            THEN Quot(st.weightedSum, st.filledAmount)
                            ELSE Num(0),
                            formatMatchMessage(order, st.filledAmount,
                                               st.orderbookFilled, 0))]

\* what matchOrders does after its loop ended in state st: cleanupOrders, the
\* executed price, the summary and the MatchResult; fills is the trace of its fills
matchOutcome(order, st) ==
    [orders |-> cleanupOrders(st.orders),
     fills |-> st.fills,
     result |-> MatchResult(st.remainingAmount = 0, st.filledAmount, st.remainingAmount,
                            IF st.filledAmount > 0
                            THEN Quot(st.weightedSum, st.filledAmount)
                            ELSE Num(0),
                            formatMatchMessage(order, st.filledAmount,
                                               st.orderbookFilled, 0))]

\* matchOrders on the already sorted opposing side
matchOrders(order, sorted) ==
    matchOutcome(order,
        matchLoop(order, 1,
            [orders |-> sorted, remainingAmount |-> order.Amount, filledAmount |-> 0,
             orderbookFilled |-> 0, weightedSum |-> 0, fills |-> <<>>]))

\* ------------------------------------------------- liquidity fallback
\* what the collaborator answers during one ProcessOrder call:
\* GetAvailableLiquidity returns (available, ok), TradeWithPool (filled, err)
PoolAnswers ==
    {pool \in [available : 0..MaxAvailable, ok : BOOLEAN, filled : 0..MaxAvailable,
               err : BOOLEAN] : ~pool.ok => pool.available = 0}

\* no call of tryLiquidityPool
NoPoolCall ==
    [called |-> FALSE, amount |-> 0, availAsked |-> FALSE, available |-> 0,
     tradeAsked |-> FALSE, lpAmount |-> 0, filled |-> 0, err |-> FALSE]

\* a fallback that asks the collaborator for the whole remainder
tryLiquidityPool_askAll(order, amount, isNil, pool) ==
    IF isNil
    THEN [NoPoolCall EXCEPT !.called = TRUE, !.amount = amount, !.err = TRUE]
    ELSE IF ~pool.ok \/ pool.available <= 0
    THEN [NoPoolCall EXCEPT !.called = TRUE, !.amount = amount, !.availAsked = TRUE,
                            !.available = pool.available, !.err = TRUE]
    ELSE [called |-> TRUE, amount |-> amount, availAsked |-> TRUE,
          available |-> pool.available, tradeAsked |-> TRUE,
          lpAmount |-> amount, filled |-> pool.filled, err |-> pool.err]

\* tryLiquidityPool(order, amount): the pair it returns and the calls it made
tryLiquidityPool(order, amount, isNil, pool) ==
    IF isNil
    THEN [NoPoolCall EXCEPT !.called = TRUE, !.amount = amount, !.err = TRUE]
    ELSE IF ~pool.ok \/ pool.available <= 0
    THEN [NoPoolCall EXCEPT !.called = TRUE, !.amount = amount, !.availAsked = TRUE,
                            !.available = pool.available, !.err = TRUE]
    ELSE [called |-> TRUE, amount |-> amount, availAsked |-> TRUE,
          available |-> pool.available, tradeAsked |-> TRUE,
          lpAmount |-> min(amount, pool.available),
          filled |-> pool.filled, err |-> pool.err]

\* a pool fill added to FilledAmount and not taken from RemainingAmount
addPoolFill_remainingKept(result, lpFilled) ==
    [result EXCEPT !.FilledAmount = @ + lpFilled,
                   !.Success = (result.RemainingAmount - lpFilled = 0)]

\* the three assignments made to the result when tryLiquidityPool returns no error
addPoolFill(result, lpFilled) ==
    [result EXCEPT !.FilledAmount = @ + lpFilled,
                   !.RemainingAmount = @ - lpFilled,
                   !.Success = (result.RemainingAmount - lpFilled = 0)]

\* the result after the fallback step shared by processMarketOrder and processLimitOrder
afterFallback(result, lp) ==
    IF lp.called /\ ~lp.err THEN addPoolFill(result, lp.filled) ELSE result

\* a remainder that rests with the quantity of the request
remainingOrder_requestAmount(order, result) == order

\* the entry processLimitOrder appends to the order's own side
remainingOrder(order, result) == [order EXCEPT !.Amount = result.RemainingAmount]

\* a fallback consulted whatever the book walk left
fallbackStep_always(order, result, isNil, pool) ==
    tryLiquidityPool(order, result.RemainingAmount, isNil, pool)

\* the fallback step of processMarketOrder and processLimitOrder on the result
\* of matchOrders
fallbackStep(order, result, isNil, pool) ==
    IF result.RemainingAmount > 0
    THEN tryLiquidityPool(order, result.RemainingAmount, isNil, pool)
    ELSE NoPoolCall

\* a remainder appended before the fallback and again after it
restingRemainder_beforeAndAfterFallback(order, matched, result) ==
    IF matched.RemainingAmount > 0
    THEN <<remainingOrder(order, matched)>> \o
         (IF result.RemainingAmount > 0 THEN <<remainingOrder(order, result)>> ELSE <<>>)
    ELSE <<>>

\* what processLimitOrder appends to the order's own side
restingRemainder(order, matched, result) ==
    IF matched.RemainingAmount > 0 /\ result.RemainingAmount > 0
    THEN <<remainingOrder(order, result)>>
    ELSE <<>>

marketOutcome(m, lp) ==
    [matching |-> m.orders, fills |-> m.fills, lp |-> lp,
     result |-> afterFallback(m.result, lp), rest |-> <<>>]

limitOutcome(order, m, lp, result) ==
    [matching |-> m.orders, fills |-> m.fills, lp |-> lp, result |-> result,
     rest |-> restingRemainder(order, m.result, result)]

\* a market request whose remainder rests like that of a limit request
processMarketOrder_remainderRests(order, m, isNil, pool) ==
    limitOutcome(order, m, fallbackStep(order, m.result, isNil, pool),
                 afterFallback(m.result, fallbackStep(order, m.result, isNil, pool)))

\* processMarketOrder, from the outcome m of its call of matchOrders on
\* (the opposing side, the fills, the result after the fallback, nothing to append)
processMarketOrder(order, m, isNil, pool) ==
    marketOutcome(m, fallbackStep(order, m.result, isNil, pool))

\* processLimitOrder, from the outcome m of its call of matchOrders on
processLimitOrder(order, m, isNil, pool) ==
    limitOutcome(order, m, fallbackStep(order, m.result, isNil, pool),
                 afterFallback(m.result, fallbackStep(order, m.result, isNil, pool)))

\* a threshold execution reported at the price of the request
thresholdResult_requestPrice(order, currentPrice) ==
    MatchResult(TRUE, order.Amount, 0, Num(order.Price),
                <<"Order executed by stop loss/take profit at price %.2f", currentPrice>>)

\* the MatchResult of a threshold execution
thresholdResult(order, currentPrice) ==
    MatchResult(TRUE, order.Amount, 0, Num(currentPrice),
                <<"Order executed by stop loss/take profit at price %.2f", currentPrice>>)

\* ------------------------------------------------------------ requests
\* every request over the input domains
AllOrders ==
    {Order(id, price, amount, type, isBuy, asset, sl, tp) :
        id \in OrderIDs, price \in Prices, amount \in Amounts, type \in {Market, Limit},
        isBuy \in BOOLEAN, asset \in Assets, sl \in Thresholds, tp \in Thresholds}

\* the requests of SpecWide: every type, side, asset and thresholds, small quantities
WideOrders == {o \in AllOrders : o.Amount \in WideAmounts}

\* the requests of the deep specification: every market request, and the limit
\* requests of one asset without thresholds (the resting entries of its book)
Orders ==
    {o \in AllOrders :
        o.Type = Limit => (o.Asset = "BTC" /\ o.StopLossPrice = 0 /\ o.TakeProfitPrice = 0)}

NoOrder == Order("", 0, 0, Market, FALSE, "BTC", 0, 0)

NoResult == MatchResult(FALSE, 0, 0, Num(0), <<>>)

Call(kind, order, currentPrice, fills, lp, result, rest) ==
    [kind |-> kind, order |-> order, currentPrice |-> currentPrice, fills |-> fills,
     lp |-> lp, result |-> result, inserted |-> rest # <<>>]

\* what the collaborator may answer when tryLiquidityPool is called with amount:
\* any availability, and a fill between 0 and the quantity it is asked for
\* (0 with an error, as Client.TradeWithPool returns)
PoolAnswersTo(amount) ==
    {pool \in PoolAnswers :
        IF pool.ok /\ pool.available > 0
        THEN pool.filled <= min(amount, pool.available) /\ (pool.err => pool.filled = 0)
        ELSE pool.filled = 0 /\ ~pool.err}

SilentPool == [available |-> 0, ok |-> FALSE, filled |-> 0, err |-> FALSE]

\* ------------------------------------------------------------- actions
\* last = NoCall: no call is being answered, the engine takes the next request
NoCall == Call("none", NoOrder, 0, <<>>, NoPoolCall, NoResult, <<>>)

Handlers == 1..MaxHandlers

\* a handler goroutine that is not inside a request
Idle ==
    [pc |-> "idle", order |-> NoOrder, i |-> 0, remainingAmount |-> 0,
     filledAmount |-> 0, orderbookFilled |-> 0, weightedSum |-> 0, matchAmount |-> 0,
     stale |-> FALSE, newOrders |-> <<>>, result |-> NoResult]

Init ==
    /\ BuyOrders = <<>>
    /\ SellOrders = <<>>
    /\ lpNil \in BOOLEAN
    /\ last = NoCall
    /\ g = [h \in Handlers |-> Idle]

\* ProcessOrder of an engine built with a nil pool: the call of GetCurrentPrice
\* on the nil interface panics before anything else happens
NilPoolPanic(order) ==
    /\ last = NoCall
    /\ lpNil
    /\ last' = Call("panic", order, 0, <<>>, NoPoolCall, NoResult, <<>>)
    /\ UNCHANGED <<BuyOrders, SellOrders, lpNil, g>>

\* ProcessOrder when checkStopLossAndTakeProfit returns true
ThresholdExecution(order, currentPrice) ==
    /\ last = NoCall
    /\ ~lpNil
    /\ checkStopLossAndTakeProfit(order, currentPrice)
    /\ last' = Call("threshold", order, currentPrice, <<>>, NoPoolCall,
                    thresholdResult(order, currentPrice), <<>>)
    /\ UNCHANGED <<BuyOrders, SellOrders, lpNil, g>>

\* ProcessOrder going on to processMarketOrder or processLimitOrder
Matching(order, currentPrice, cap) ==
    /\ last = NoCall
    /\ ~lpNil
    /\ ~checkStopLossAndTakeProfit(order, currentPrice)
    /\ \E sorted \in sortSlice(order, IF order.IsBuyOrder THEN SellOrders ELSE BuyOrders) :
       \E m \in {matchOrders(order, sorted)} :
       \E pool \in IF m.result.RemainingAmount > 0
                   THEN PoolAnswersTo(m.result.RemainingAmount)
                   ELSE {SilentPool} :
       \E r \in {IF order.Type = Market
                 THEN processMarketOrder(order, m, lpNil, pool)
                 ELSE processLimitOrder(order, m, lpNil, pool)} :
            /\ Len(BuyOrders) + Len(SellOrders) + Len(r.rest) <= cap
            /\ IF order.IsBuyOrder
               THEN /\ SellOrders' = r.matching
                    /\ BuyOrders' = BuyOrders \o r.rest
               ELSE /\ BuyOrders' = r.matching
                    /\ SellOrders' = SellOrders \o r.rest
            /\ last' = Call(IF order.Type = Market THEN "market" ELSE "limit", order,
                            currentPrice, r.fills, r.lp, r.result, r.rest)
    /\ UNCHANGED <<lpNil, g>>

\* cap bounds the resting entries of the book (the code has no such bound)
ProcessOrder(order, currentPrice, cap) ==
    \/ NilPoolPanic(order)
    \/ ThresholdExecution(order, currentPrice)
    \/ Matching(order, currentPrice, cap)

\* the handler writes the outcome of the call to the response; the next request
\* is then served
WriteResponse ==
    /\ last # NoCall
    /\ last' = NoCall
    /\ UNCHANGED <<BuyOrders, SellOrders, lpNil, g>>

\* the requests the handler can hand to the engine: none while a call is being
\* answered
Taken(requests) == IF last = NoCall THEN requests ELSE {}

\* requests served one after the other: a call of ProcessOrder, on one of its
\* three paths, or the response to it
Serve(requests, cap) ==
    \/ \E order \in Taken(requests) : NilPoolPanic(order)
    \/ \E order \in Taken(requests), currentPrice \in RefPrices :
          ThresholdExecution(order, currentPrice)
    \/ \E order \in Taken(requests), currentPrice \in RefPrices :
          Matching(order, currentPrice, cap)
    \/ WriteResponse

\* a deep book of the limit requests of one asset
Next == Serve(Orders, MaxBook)

Spec == Init /\ [][Next]_vars

\* every request, over a book of at most MaxWideBook resting entries
NextWide == Serve(WideOrders, MaxWideBook)

SpecWide == Init /\ [][NextWide]_vars

\* ------------------------------------------- concurrent handler goroutines
\* net/http serves every request on a goroutine of its own, and neither the
\* handler nor the engine takes a lock: under SpecConc the steps of the
\* ProcessOrder calls of the handlers interleave on the shared book.
\* A handler in pc "fill" holds the pointer matched = &(*matchingOrders)[i];
\* stale says that the slice it points into has since been replaced.

\* the requests of SpecConc: one asset, no thresholds, quantity 1
ConcOrders ==
    {o \in Orders : /\ o.Asset = "BTC" /\ o.Amount = 1
                    /\ o.StopLossPrice = 0 /\ o.TakeProfitPrice = 0}

\* the handlers whose ProcessOrder call has started and not returned
InFlight == {h \in Handlers : g[h].pc \notin {"idle", "respond"}}

WalksBuys(h) == ~g[h].order.IsBuyOrder

\* the side handler h walks
Matched(h) == IF WalksBuys(h) THEN BuyOrders ELSE SellOrders

\* handler h stores side as the side of the book it walks (buys = TRUE: the buy side)
StoreSide(buys, side) ==
    IF buys
    THEN BuyOrders' = side /\ UNCHANGED SellOrders
    ELSE SellOrders' = side /\ UNCHANGED BuyOrders

\* the pointers of the other handlers into the buy (sell) side go stale
Invalidate(gs, h, buys) ==
    [k \in Handlers |->
        IF k # h /\ gs[k].pc = "fill" /\ WalksBuys(k) = buys
        THEN [gs[k] EXCEPT !.stale = TRUE]
        ELSE gs[k]]

InitConc ==
    /\ BuyOrders = <<>>
    /\ SellOrders = <<>>
    /\ lpNil = FALSE
    /\ last = NoCall
    /\ g = [h \in Handlers |-> Idle]

\* the handler decodes a request and calls ProcessOrder: the reference price is
\* read and the thresholds are checked; matchOrders initialises its variables
CBegin(h, order, currentPrice) ==
    /\ g[h].pc = "idle"
    /\ g' = [g EXCEPT ![h] =
                IF checkStopLossAndTakeProfit(order, currentPrice)
                THEN [Idle EXCEPT !.pc = "respond", !.order = order,
                                  !.result = thresholdResult(order, currentPrice)]
                ELSE [Idle EXCEPT !.pc = "sort", !.order = order,
                                  !.remainingAmount = order.Amount]]
    /\ UNCHANGED <<BuyOrders, SellOrders, lpNil, last>>

\* sort.Slice on the opposing side, in place
CSort(h) ==
    /\ g[h].pc = "sort"
    /\ \E sorted \in sortSlice(g[h].order, Matched(h)) : StoreSide(WalksBuys(h), sorted)
    /\ g' = [g EXCEPT ![h].pc = "loop", ![h].i = 1]
    /\ UNCHANGED <<lpNil, last>>

\* one iteration of the loop up to the statement before the write of
\* matched.FilledAmount: the loop condition, continue, break, matchAmount and
\* the updates of the local variables
CLoop(h) ==
    /\ g[h].pc = "loop"
    /\ g' = [g EXCEPT ![h] =
         IF ~(g[h].i <= Len(Matched(h)) /\ g[h].remainingAmount > 0)
         THEN [@ EXCEPT !.pc = "cleanup"]
         ELSE IF Matched(h)[g[h].i].FilledAmount >= Matched(h)[g[h].i].Amount
         THEN [@ EXCEPT !.i = @ + 1]
         ELSE IF limitBreak(g[h].order, Matched(h)[g[h].i])
         THEN [@ EXCEPT !.pc = "cleanup"]
         ELSE IF matchAmountOf(g[h].remainingAmount, Matched(h)[g[h].i]) > 0
         THEN [@ EXCEPT
                 !.pc = "fill",
                 !.stale = FALSE,
                 !.matchAmount = matchAmountOf(g[h].remainingAmount, Matched(h)[g[h].i]),
                 !.remainingAmount =
                     @ - matchAmountOf(g[h].remainingAmount, Matched(h)[g[h].i]),
                 !.filledAmount =
                     @ + matchAmountOf(g[h].remainingAmount, Matched(h)[g[h].i]),
                 !.orderbookFilled =
                     @ + matchAmountOf(g[h].remainingAmount, Matched(h)[g[h].i]),
                 !.weightedSum =
                     @ + matchAmountOf(g[h].remainingAmount, Matched(h)[g[h].i])
                           * fillPrice(g[h].order, Matched(h)[g[h].i])]
         ELSE [@ EXCEPT !.i = @ + 1]]
    /\ UNCHANGED <<BuyOrders, SellOrders, lpNil, last>>

\* matched.FilledAmount += matchAmount through the pointer taken in CLoop: it
\* lands in the book unless the slice was replaced in between
CFill(h) ==
    /\ g[h].pc = "fill"
    /\ IF ~g[h].stale /\ g[h].i <= Len(Matched(h))
       THEN StoreSide(WalksBuys(h),
                [Matched(h) EXCEPT ![g[h].i].FilledAmount = @ + g[h].matchAmount])
       ELSE UNCHANGED <<BuyOrders, SellOrders>>
    /\ g' = [g EXCEPT ![h].pc = "loop", ![h].i = @ + 1, ![h].stale = FALSE,
                      ![h].matchAmount = 0]
    /\ UNCHANGED <<lpNil, last>>

\* cleanupOrders: the range loop builds newOrders from the slice it finds
CCleanupRead(h) ==
    /\ g[h].pc = "cleanup"
    /\ g' = [g EXCEPT ![h].pc = "assign", ![h].newOrders = cleanupOrders(Matched(h))]
    /\ UNCHANGED <<BuyOrders, SellOrders, lpNil, last>>

\* a limit remainder appended straight after the walk, before any fallback
CCleanupAssign_appendBeforeFallback(h) ==
    /\ g[h].pc = "assign"
    /\ StoreSide(WalksBuys(h), g[h].newOrders)
    /\ g' = [Invalidate(g, h, WalksBuys(h)) EXCEPT ![h] =
               [@ EXCEPT
                  !.pc = IF g[h].remainingAmount > 0
                         THEN (IF g[h].order.Type = Limit THEN "append" ELSE "fallback")
                         ELSE "respond",
                  !.newOrders = <<>>,
                  !.result = MatchResult(g[h].remainingAmount = 0, g[h].filledAmount,
                                 g[h].remainingAmount,
                                 IF g[h].filledAmount > 0
                                 THEN Quot(g[h].weightedSum, g[h].filledAmount)
                                 ELSE Num(0),
                                 formatMatchMessage(g[h].order, g[h].filledAmount,
                                                    g[h].orderbookFilled, 0))]]
    /\ UNCHANGED <<lpNil, last>>

\* a walk that is started again as long as a remainder is left
CCleanupAssign_walkAgain(h) ==
    /\ g[h].pc = "assign"
    /\ StoreSide(WalksBuys(h), g[h].newOrders)
    /\ g' = [Invalidate(g, h, WalksBuys(h)) EXCEPT ![h] =
               [@ EXCEPT
                  !.pc = IF g[h].remainingAmount > 0 THEN "sort" ELSE "respond",
                  !.newOrders = <<>>,
                  !.result = MatchResult(g[h].remainingAmount = 0, g[h].filledAmount,
                                 g[h].remainingAmount,
                                 IF g[h].filledAmount > 0
                                 THEN Quot(g[h].weightedSum, g[h].filledAmount)
                                 ELSE Num(0),
                                 formatMatchMessage(g[h].order, g[h].filledAmount,
                                                    g[h].orderbookFilled, 0))]]
    /\ UNCHANGED <<lpNil, last>>

\* cleanupOrders: *orders = newOrders; matchOrders then builds its MatchResult
CCleanupAssign(h) ==
    /\ g[h].pc = "assign"
    /\ StoreSide(WalksBuys(h), g[h].newOrders)
    /\ g' = [Invalidate(g, h, WalksBuys(h)) EXCEPT ![h] =
               [@ EXCEPT
                  !.pc = IF g[h].remainingAmount > 0 THEN "fallback" ELSE "respond",
                  !.newOrders = <<>>,
                  !.result = MatchResult(g[h].remainingAmount = 0, g[h].filledAmount,
                                 g[h].remainingAmount,
                                 IF g[h].filledAmount > 0
                                 THEN Quot(g[h].weightedSum, g[h].filledAmount)
                                 ELSE Num(0),
                                 formatMatchMessage(g[h].order, g[h].filledAmount,
                                                    g[h].orderbookFilled, 0))]]
    /\ UNCHANGED <<lpNil, last>>

\* the fallback of processMarketOrder and processLimitOrder
CFallback(h, pool) ==
    /\ g[h].pc = "fallback"
    /\ pool \in PoolAnswersTo(g[h].result.RemainingAmount)
    /\ \E result \in {afterFallback(g[h].result,
                        tryLiquidityPool(g[h].order, g[h].result.RemainingAmount,
                                         lpNil, pool))} :
          g' = [g EXCEPT ![h].result = result,
                         ![h].pc = IF g[h].order.Type = Limit /\ result.RemainingAmount > 0
                                   THEN "append" ELSE "respond"]
    /\ UNCHANGED <<BuyOrders, SellOrders, lpNil, last>>

\* processLimitOrder appends the remainder to the request's own side; append
\* moves the slice to a new array (moved) or not, as its capacity has it.
\* cap bounds the book (the code has no such bound)
CAppend(h, moved, cap) ==
    /\ g[h].pc = "append"
    /\ Len(BuyOrders) + Len(SellOrders) < cap
    /\ StoreSide(g[h].order.IsBuyOrder,
                 (IF g[h].order.IsBuyOrder THEN BuyOrders ELSE SellOrders)
                    \o <<remainingOrder(g[h].order, g[h].result)>>)
    /\ g' = [(IF moved THEN Invalidate(g, h, g[h].order.IsBuyOrder) ELSE g)
                EXCEPT ![h].pc = "respond"]
    /\ UNCHANGED <<lpNil, last>>

\* ProcessOrder has returned; the handler writes the response and ends
CRespond(h) ==
    /\ g[h].pc = "respond"
    /\ g' = [g EXCEPT ![h] = Idle]
    /\ UNCHANGED <<BuyOrders, SellOrders, lpNil, last>>

NextConc ==
    \/ \E h \in Handlers, order \in ConcOrders, currentPrice \in RefPrices :
          CBegin(h, order, currentPrice)
    \/ \E h \in Handlers : CSort(h)
    \/ \E h \in Handlers : CLoop(h)
    \/ \E h \in Handlers : CFill(h)
    \/ \E h \in Handlers : CCleanupRead(h)
    \/ \E h \in Handlers : CCleanupAssign(h)
    \/ \E h \in Handlers, pool \in PoolAnswers : CFallback(h, pool)
    \/ \E h \in Handlers, moved \in BOOLEAN : CAppend(h, moved, MaxConcBook)
    \/ \E h \in Handlers : CRespond(h)

SpecConc == InitConc /\ [][NextConc]_vars

\* ------------------------------------------------ one call, step by step
\* the requests of SpecPhases: one asset, every type, side and quantity, the
\* market requests with and without a stop loss
PhaseOrders == {o \in Orders : o.Asset = "BTC" /\ o.TakeProfitPrice = 0}

\* the handler calls ProcessOrder; a limit request is taken while the book has
\* room for its remainder (MaxPhaseBook bounds the book, the code does not)
PBegin(order, currentPrice) ==
    /\ order.Type = Limit => Len(BuyOrders) + Len(SellOrders) < MaxPhaseBook
    /\ CBegin(1, order, currentPrice)

\* the steps of a ProcessOrder call that has started, up to the response
PStep ==
    \/ CSort(1)
    \/ CLoop(1)
    \/ CFill(1)
    \/ CCleanupRead(1)
    \/ CCleanupAssign(1)
    \/ \E pool \in PoolAnswers : CFallback(1, pool)
    \/ CAppend(1, FALSE, MaxPhaseBook)
    \/ CRespond(1)

NextPhases ==
    \/ \E order \in PhaseOrders, currentPrice \in RefPrices : PBegin(order, currentPrice)
    \/ PStep

SpecPhases == InitConc /\ [][NextPhases]_vars

\* the goroutine of a call keeps running, and the calls of the collaborator return
SpecPhasesFair == SpecPhases /\ WF_vars(PStep)

\* ============================================================ properties
\* the calls that returned an outcome
Returned == last.kind \in {"threshold", "market", "limit"}

Book == BuyOrders \o SellOrders

RECURSIVE SumAmount(_)
SumAmount(fills) ==
    IF fills = <<>> THEN 0 ELSE Head(fills).amount + SumAmount(Tail(fills))

RECURSIVE SumValue(_)
SumValue(fills) ==
    IF fills = <<>> THEN 0
    ELSE Head(fills).amount * Head(fills).price + SumValue(Tail(fills))

\* what the fallback added to the outcome of the last call
PoolFilled == IF last.lp.called /\ ~last.lp.err THEN last.lp.filled ELSE 0

\* C1: for every outcome ProcessOrder returns, FilledAmount + RemainingAmount is
\* the quantity the request was submitted with
C1_QuantityConserved ==
    Returned =>
        last.result.FilledAmount + last.result.RemainingAmount = last.order.Amount

\* a limit request filled partly by the book and partly by the pool
C1_Witness ==
    /\ last.kind = "limit"
    /\ last.fills # <<>>
    /\ PoolFilled > 0

\* C2: ExecutedPrice is the quantity-weighted average over the book fills at
\* their resting prices and the fallback fill at the collaborator's price
C2_WeightedAverageOfAllFills ==
    last.kind \in {"market", "limit"} =>
        last.result.ExecutedPrice =
            IF SumAmount(last.fills) + PoolFilled > 0
            THEN Quot(SumValue(last.fills) + PoolFilled * last.currentPrice,
                      SumAmount(last.fills) + PoolFilled)
            ELSE Num(0)

\* C3: every resting entry of the book has 0 <= FilledAmount < Amount
C3_RestingNotFilled ==
    \A i \in 1..Len(Book) : 0 <= Book[i].FilledAmount /\ Book[i].FilledAmount < Book[i].Amount

\* a call consumed one resting entry entirely and another one partly, which stays
C3_Witness ==
    /\ \E i \in 1..Len(last.fills) : last.fills[i].amount = last.fills[i].restLeft
    /\ \E i \in 1..Len(last.fills) : last.fills[i].amount < last.fills[i].restLeft
    /\ \E i \in 1..Len(Book) : Book[i].FilledAmount > 0

\* C5: an incoming request is matched only against resting requests of its own asset
C5_MatchedWithinAsset ==
    \A i \in 1..Len(last.fills) : last.fills[i].restAsset = last.order.Asset

\* C6: a threshold execution reports the whole quantity filled at the reference
\* price, leaves both sides of the book as they were and makes no fallback call
C6_ThresholdStep ==
    last'.kind = "threshold" =>
        /\ last'.result.FilledAmount = last'.order.Amount
        /\ last'.result.RemainingAmount = 0
        /\ last'.result.ExecutedPrice = Num(last'.currentPrice)
        /\ BuyOrders' = BuyOrders
        /\ SellOrders' = SellOrders
        /\ ~last'.lp.called /\ ~last'.lp.availAsked /\ ~last'.lp.tradeAsked

C6_ThresholdExecutionFrame == [][C6_ThresholdStep]_vars

\* a threshold execution of a request with a resting entry in the book
C6_Witness ==
    /\ last.kind = "threshold"
    /\ last.order.Amount > 0
    /\ Book # <<>>

\* C7: with the reference price at the error sentinel 0 no request is threshold-executed
C7_NoThresholdAtSentinel ==
    (Returned /\ last.currentPrice = 0) => last.kind # "threshold"

\* the trigger rule of the claim
Fires(isBuy, sl, tp, price) ==
    IF isBuy
    THEN (sl > 0 /\ price <= sl) \/ (tp > 0 /\ price >= tp)
    ELSE (sl > 0 /\ price >= sl) \/ (tp > 0 /\ price >= tp)

C9_RestingLimitRespected ==
    \A i \in 1..Len(last.fills) :
        IF last.fills[i].restIsBuy
        THEN last.fills[i].price <= last.fills[i].restPrice
        ELSE last.fills[i].price >= last.fills[i].restPrice

\* a market request filled by two resting entries at different prices, one of
\* them not the price the request carries
C9_Witness ==
    /\ last.kind = "market"
    /\ Len(last.fills) = 2
    /\ last.fills[1].restPrice # last.fills[2].restPrice
    /\ last.order.Price # last.fills[2].restPrice

\* the resting price is worse than the limit of the incoming request
Worse(order, resting) ==
    IF order.IsBuyOrder THEN resting.Price > order.Price ELSE resting.Price < order.Price

Opposing(order) == IF order.IsBuyOrder THEN SellOrders ELSE BuyOrders

Count(seq, x) == Cardinality({i \in 1..Len(seq) : seq[i] = x})

\* the same resting entries with the same fills, in any order of the slice
SameEntries(a, b) ==
    /\ Len(a) = Len(b)
    /\ \A i \in 1..Len(a) : Count(a, a[i]) = Count(b, a[i])

\* C10: an incoming limit request takes no book fill at a price worse than its
\* limit; when every opposing resting price is worse, it takes no fill, the
\* opposing side keeps its entries and their fills, and the whole (positive)
\* quantity is offered to the fallback
C10_LimitStep ==
    last'.kind = "limit" =>
        /\ \A i \in 1..Len(last'.fills) :
              IF last'.order.IsBuyOrder
              THEN last'.fills[i].price <= last'.order.Price
              ELSE last'.fills[i].price >= last'.order.Price
        /\ (\A i \in 1..Len(Opposing(last'.order)) :
                Worse(last'.order, Opposing(last'.order)[i]))
              => /\ last'.fills = <<>>
                 /\ IF last'.order.IsBuyOrder
                    THEN SameEntries(SellOrders, SellOrders')
                    ELSE SameEntries(BuyOrders, BuyOrders')
                 /\ last'.order.Amount > 0
                      => (last'.lp.called /\ last'.lp.amount = last'.order.Amount)

C10_IncomingLimitRespected == [][C10_LimitStep]_vars

\* a limit buy below the only resting sell: no fill, the sell stays, the pool is asked
C10_Witness ==
    /\ last.kind = "limit"
    /\ last.order.IsBuyOrder
    /\ last.order.Amount > 0
    /\ last.fills = <<>>
    /\ last.lp.called
    /\ \E i \in 1..Len(SellOrders) : SellOrders[i].Price > last.order.Price

\* at most one ProcessOrder call is in flight on the engine
C4_AtMostOneInFlight == Cardinality(InFlight) <= 1

\* C4: requests submitted at the same time are processed one at a time, so that
\* no interleaving of two calls lets a resting request receive fills totalling
\* more than its quantity
C4_NoOverfill == \A i \in 1..Len(Book) : Book[i].FilledAmount <= Book[i].Amount

\* the calls that went through the book walk
Walked == last.kind \in {"market", "limit"}

\* price a is strictly better than price b for the incoming request to trade at
Better(order, a, b) == IF order.IsBuyOrder THEN a < b ELSE a > b

\* C11: the book fills of a call come in price priority (ascending resting
\* prices for an incoming buy, descending for an incoming sell), and no opposing
\* entry priced strictly better than a resting entry that received a fill is
\* left in the book with remaining capacity
C11_PricePriority ==
    Walked =>
        /\ \A i, j \in 1..Len(last.fills) :
              i < j => ~Better(last.order, last.fills[j].restPrice, last.fills[i].restPrice)
        /\ \A i \in 1..Len(last.fills) :
           \A k \in 1..Len(Opposing(last.order)) :
              Opposing(last.order)[k].FilledAmount < Opposing(last.order)[k].Amount
                 => ~Better(last.order, Opposing(last.order)[k].Price,
                            last.fills[i].restPrice)

\* a call filled by the better priced of two opposing entries, the worse priced
\* one left in the book without a fill
C11_Witness ==
    /\ Walked
    /\ Len(last.fills) = 1
    /\ \E k \in 1..Len(Opposing(last.order)) :
          /\ Better(last.order, last.fills[1].restPrice, Opposing(last.order)[k].Price)
          /\ Opposing(last.order)[k].FilledAmount = 0

\* entry e is entry f with possibly more of it filled
SameRequest(e, f) == [e EXCEPT !.FilledAmount = f.FilledAmount] = f

\* C12: ProcessOrder of a market request appends nothing: its own side is as it
\* was, the opposing side holds only entries it held before, and the remainder
\* left by the book and the fallback is reported in the outcome
C12_MarketStep ==
    last'.kind = "market" =>
        /\ ~last'.inserted
        /\ IF last'.order.IsBuyOrder
           THEN /\ BuyOrders' = BuyOrders
                /\ Len(SellOrders') <= Len(SellOrders)
                /\ \A i \in 1..Len(SellOrders') : \E j \in 1..Len(SellOrders) :
                      SameRequest(SellOrders'[i], SellOrders[j])
           ELSE /\ SellOrders' = SellOrders
                /\ Len(BuyOrders') <= Len(BuyOrders)
                /\ \A i \in 1..Len(BuyOrders') : \E j \in 1..Len(BuyOrders) :
                      SameRequest(BuyOrders'[i], BuyOrders[j])
        /\ last'.result.RemainingAmount =
              last'.order.Amount - SumAmount(last'.fills)
                 - (IF last'.lp.called /\ ~last'.lp.err THEN last'.lp.filled ELSE 0)

C12_MarketNeverRests == [][C12_MarketStep]_vars

\* a market request partly filled by the book, refused by the pool, with a
\* remainder that is reported
C12_Witness ==
    /\ last.kind = "market"
    /\ last.fills # <<>>
    /\ last.lp.called /\ last.lp.err
    /\ last.result.RemainingAmount > 0

\* the opposing market requests of positive quantity
Takers(order) ==
    {o \in Orders : o.Type = Market /\ o.IsBuyOrder # order.IsBuyOrder /\ o.Amount > 0}

\* C13: ProcessOrder of a limit request that is not threshold-executed appends
\* exactly one entry to the request's own side when the outcome's
\* RemainingAmount is > 0: the request at its limit price, nothing of it filled,
\* its quantity the RemainingAmount, which the walk of an opposing request
\* fills; it appends nothing when RemainingAmount is 0
C13_LimitStep ==
    last'.kind = "limit" =>
        IF last'.result.RemainingAmount > 0
        THEN /\ last'.inserted
             /\ (IF last'.order.IsBuyOrder THEN BuyOrders' ELSE SellOrders') =
                   Append(IF last'.order.IsBuyOrder THEN BuyOrders ELSE SellOrders,
                          [last'.order EXCEPT !.Amount = last'.result.RemainingAmount])
             /\ last'.order.FilledAmount = 0
             /\ \A o \in Takers(last'.order) :
                   matchOrders(o, <<[last'.order EXCEPT
                                        !.Amount = last'.result.RemainingAmount]>>)
                      .result.FilledAmount = min(o.Amount, last'.result.RemainingAmount)
        ELSE /\ ~last'.inserted
             /\ (IF last'.order.IsBuyOrder THEN BuyOrders' ELSE SellOrders') =
                   (IF last'.order.IsBuyOrder THEN BuyOrders ELSE SellOrders)

C13_LimitRemainderRests == [][C13_LimitStep]_vars

\* a limit request partly filled by the book whose remainder rests
C13_Witness ==
    /\ last.kind = "limit"
    /\ last.fills # <<>>
    /\ last.inserted
    /\ last.result.RemainingAmount > 0
    /\ last.result.RemainingAmount < last.order.Amount

\* C14: a request of non-positive quantity is rejected before matching: no
\* outcome of a threshold execution or of a walk is returned for it
C14_NonPositiveRejected == Returned => last.order.Amount > 0

\* what the book walk alone obtained for the last call
BookFilled == SumAmount(last.fills)

BookPrice ==
    IF BookFilled > 0 THEN Quot(SumValue(last.fills), BookFilled) ELSE Num(0)

\* a call whose fallback failed: availability refused or not positive, or an
\* error of TradeWithPool
FallbackFailed == Walked /\ last.lp.called /\ last.lp.err

\* with a pool in place a failed fallback leaves the outcome of the book walk,
\* and the remainder of a limit request rests
C15_RecoveredWithPool ==
    FallbackFailed =>
        /\ last.result.FilledAmount = BookFilled
        /\ last.result.RemainingAmount = last.order.Amount - BookFilled
        /\ last.result.ExecutedPrice = BookPrice
        /\ last.kind = "limit" => last.inserted

\* C15: a failure of the fallback (no pool, no availability, an error of
\* TradeWithPool) counts as no additional fill and never aborts the call: the
\* outcome reports the quantity and price of the book walk and the remainder of
\* a limit request rests. The first conjunct is the case of no pool: a request
\* of positive quantity that finds the opposing side empty, and so has its
\* whole quantity left for the fallback, is answered and does not panic
C15_FallbackFailureRecovered ==
    /\ ~(/\ last.kind = "panic"
          /\ last.order.Amount > 0
          /\ Opposing(last.order) = <<>>)
    /\ C15_RecoveredWithPool

\* C16: the fallback is called with the remainder of the book walk, asks the
\* collaborator for min(remainder, available), and the quantity the collaborator
\* returns is added to FilledAmount and taken from RemainingAmount, never more
\* than the remainder
C16_FallbackFill ==
    (Walked /\ last.lp.called) =>
        /\ last.lp.amount = last.order.Amount - BookFilled
        /\ last.lp.tradeAsked => last.lp.lpAmount = min(last.lp.amount, last.lp.available)
        /\ last.result.FilledAmount = BookFilled + PoolFilled
        /\ last.result.RemainingAmount = last.lp.amount - PoolFilled
        /\ PoolFilled <= last.lp.amount

\* the pool has less than the remainder and fills what it is asked for
C16_Witness ==
    /\ Walked
    /\ last.lp.tradeAsked /\ ~last.lp.err
    /\ last.lp.available < last.lp.amount
    /\ last.lp.filled = last.lp.available

\* C17: the fallback is called exactly when the book walk leaves a remainder
\* > 0, for market and limit requests alike, and neither when the book
\* satisfied the request nor on a threshold execution; within the call the
\* collaborator is asked for a fill only after it was asked for its liquidity
C17_FallbackOnce ==
    Returned =>
        /\ last.lp.called = (Walked /\ last.order.Amount - BookFilled > 0)
        /\ last.lp.tradeAsked => (last.lp.called /\ last.lp.availAsked)
        /\ last.lp.availAsked => last.lp.called

\* a limit request partly filled by the book whose one fallback call failed
C17_Witness ==
    /\ last.kind = "limit"
    /\ last.fills # <<>>
    /\ last.lp.called /\ last.lp.availAsked /\ last.lp.err

\* C18: an outcome with FilledAmount 0 has ExecutedPrice 0
C18_ZeroFillZeroPrice ==
    (Returned /\ last.result.FilledAmount = 0) => last.result.ExecutedPrice = Num(0)

\* C19: Success is true exactly when RemainingAmount is 0
C19_SuccessIffNothingRemains ==
    Returned => (last.result.Success = (last.result.RemainingAmount = 0))

\* a market request completed by a book fill and a pool fill together
C19_Witness ==
    /\ last.kind = "market"
    /\ last.fills # <<>>
    /\ PoolFilled > 0
    /\ last.result.Success

\* C20: the summary of a partly filled outcome reports the initial amount of the
\* request, the FilledAmount of the outcome and, as the rest, its RemainingAmount
C20_MessageMatchesOutcome ==
    (Walked /\ last.result.FilledAmount > 0 /\ last.result.RemainingAmount > 0) =>
        /\ last.result.Message[3] = last.order.Amount
        /\ last.result.Message[4] = last.result.FilledAmount
        /\ last.result.Message[3] - last.result.Message[4] = last.result.RemainingAmount

\* the quantity the entries of a side can still give
RECURSIVE Capacity(_)
Capacity(orders) ==
    IF orders = <<>> THEN 0
    ELSE Head(orders).Amount - Head(orders).FilledAmount + Capacity(Tail(orders))

\* C21: in one match pass each fill is min(what the incoming request still
\* needs, what the resting request still has), the book fills of the incoming
\* request add up to what the opposing side lost in capacity, and a resting
\* request consumed in part stays with its capacity reduced by the fill
C21_FillStep ==
    last'.kind \in {"market", "limit"} =>
        /\ \A i \in 1..Len(last'.fills) :
              last'.fills[i].amount =
                 min(last'.order.Amount - SumAmount(SubSeq(last'.fills, 1, i - 1)),
                     last'.fills[i].restLeft)
        /\ SumAmount(last'.fills) =
              IF last'.order.IsBuyOrder
              THEN Capacity(SellOrders) - Capacity(SellOrders')
              ELSE Capacity(BuyOrders) - Capacity(BuyOrders')
        /\ \A i \in 1..Len(last'.fills) :
              last'.fills[i].amount < last'.fills[i].restLeft =>
                 \E e \in {(IF last'.order.IsBuyOrder THEN SellOrders' ELSE BuyOrders')[k] :
                             k \in 1..Len(IF last'.order.IsBuyOrder
                                          THEN SellOrders' ELSE BuyOrders')} :
                    /\ e.Price = last'.fills[i].restPrice
                    /\ e.FilledAmount >= last'.fills[i].amount
                    /\ e.Amount - e.FilledAmount =
                          last'.fills[i].restLeft - last'.fills[i].amount

C21_BookFillsConserved == [][C21_FillStep]_vars

\* a market request filled from a larger resting request, which stays in the
\* book, without any fallback
C21_Witness ==
    /\ last.kind = "market"
    /\ Len(last.fills) = 1
    /\ last.fills[1].amount < last.fills[1].restLeft
    /\ ~last.lp.called
    /\ \E k \in 1..Len(Opposing(last.order)) :
          Opposing(last.order)[k].FilledAmount = last.fills[1].amount

\* C22: processing is deterministic: from the same book, the same request and
\* the same answers of the collaborator, every run produces the outcome of the
\* step taken and leaves the same resting requests with the same fills,
\* whichever way sort.Slice arranges resting requests of equal price
C22_DeterministicStep ==
    last'.kind \in {"market", "limit"} =>
        \A sorted \in sortSlice(last'.order, Opposing(last'.order)) :
            /\ matchOrders(last'.order, sorted).result.FilledAmount = SumAmount(last'.fills)
            /\ matchOrders(last'.order, sorted).result.ExecutedPrice =
                  last'.result.ExecutedPrice
            /\ SameEntries(matchOrders(last'.order, sorted).orders,
                           IF last'.order.IsBuyOrder THEN SellOrders' ELSE BuyOrders')

C23_NeverCrossed ==
    \A i \in 1..Len(BuyOrders), j \in 1..Len(SellOrders) :
        BuyOrders[i].Price < SellOrders[j].Price

\* a limit request came to rest opposite a resting request it could not trade with
C23_Witness ==
    /\ last.kind = "limit"
    /\ last.inserted
    /\ BuyOrders # <<>>
    /\ SellOrders # <<>>

\* every entry of after is an entry of before, with possibly more of it filled
FilledOrRemoved(before, after) ==
    /\ Len(after) <= Len(before)
    /\ \A i \in 1..Len(after) : \E j \in 1..Len(before) :
          /\ SameRequest(after[i], before[j])
          /\ after[i].FilledAmount >= before[j].FilledAmount

\* own is the side as it was, or with one entry of the request appended
AppendedAtMostOnce(order, before, after) ==
    \/ after = before
    \/ /\ order.Type = Limit
       /\ Len(after) = Len(before) + 1
       /\ SubSeq(after, 1, Len(before)) = before
       /\ [after[Len(after)] EXCEPT !.Amount = order.Amount] = order

\* C24: ProcessOrder changes the opposing side by fills and removals only, and
\* the request's own side keeps its entries as they were, with at most one
\* entry appended for the remainder of an incoming limit request
C24_FrameStep ==
    last'.kind \in {"threshold", "market", "limit"} =>
        IF last'.order.IsBuyOrder
        THEN /\ AppendedAtMostOnce(last'.order, BuyOrders, BuyOrders')
             /\ FilledOrRemoved(SellOrders, SellOrders')
        ELSE /\ AppendedAtMostOnce(last'.order, SellOrders, SellOrders')
             /\ FilledOrRemoved(BuyOrders, BuyOrders')

C24_OnlyOpposingSideChanges == [][C24_FrameStep]_vars

\* a request filled in part of an opposing entry, which stays, while an entry
\* rests on the request's own side
C24_Witness ==
    /\ Walked
    /\ last.fills # <<>>
    /\ (IF last.order.IsBuyOrder THEN BuyOrders ELSE SellOrders) # <<>>
    /\ Opposing(last.order) # <<>>

\* C26: an engine built without a pool answers every request: no call panics
C26_NilPoolServed == lpNil => last.kind # "panic"

\* the fills of the last call that took all its resting request had left
WholeFills(fills) == {i \in 1..Len(fills) : fills[i].amount = fills[i].restLeft}

\* C27: the thresholds of resting requests are never evaluated: the book changes
\* only in a step that walks it, whatever the reference price of the call; the
\* walked side loses exactly the entries a fill consumed entirely, and the other
\* side keeps every entry it had
C27_RestingStep ==
    /\ last'.kind \notin {"market", "limit"} =>
          (BuyOrders' = BuyOrders /\ SellOrders' = SellOrders)
    /\ last'.kind \in {"market", "limit"} =>
          IF last'.order.IsBuyOrder
          THEN /\ Len(SellOrders) - Len(SellOrders') = Cardinality(WholeFills(last'.fills))
               /\ FilledOrRemoved(SellOrders, SellOrders')
               /\ Len(BuyOrders') >= Len(BuyOrders)
               /\ SubSeq(BuyOrders', 1, Len(BuyOrders)) = BuyOrders
          ELSE /\ Len(BuyOrders) - Len(BuyOrders') = Cardinality(WholeFills(last'.fills))
               /\ FilledOrRemoved(BuyOrders, BuyOrders')
               /\ Len(SellOrders') >= Len(SellOrders)
               /\ SubSeq(SellOrders', 1, Len(SellOrders)) = SellOrders

C27_RestingThresholdsInert == [][C27_RestingStep]_vars

\* a call was answered at a reference price at which a threshold of a resting
\* request fires, and the request is still in the book
C27_Witness ==
    /\ Returned
    /\ ~last.inserted
    /\ \E i \in 1..Len(Book) : checkStopLossAndTakeProfit(Book[i], last.currentPrice)

\* the step from one phase of a call to the next that the code allows
PhaseOrder ==
    {<<"idle", "respond">>, <<"idle", "sort">>, <<"sort", "loop">>, <<"loop", "loop">>,
     <<"loop", "fill">>, <<"fill", "loop">>, <<"loop", "cleanup">>,
     <<"cleanup", "assign">>, <<"assign", "fallback">>, <<"assign", "respond">>,
     <<"fallback", "append">>, <<"fallback", "respond">>, <<"append", "respond">>,
     <<"respond", "idle">>}

\* the final state a call is answered in, by the phase it returns from
ThresholdExecuted(from, call) == from = "idle"

Resting(from, call) == from = "append"

Terminal(from, call) ==
    /\ from \in {"assign", "fallback"}
    /\ call.result.RemainingAmount = 0 \/ call.order.Type = Market

\* C25: a call goes through its phases in a fixed order: the threshold check
\* comes first and touches no book, the fallback follows the walk and the
\* compaction, an insertion follows the fallback, the book is touched by the
\* sort, the fills, the compaction and the insertion only, and the call is
\* answered in exactly one of the final states ThresholdExecuted, Terminal
\* (full fill, or partial fill of a market request) and Resting
C25_PhaseStep ==
    /\ <<g[1].pc, g'[1].pc>> \in PhaseOrder
    /\ g[1].pc \notin {"sort", "fill", "assign", "append"} =>
          (BuyOrders' = BuyOrders /\ SellOrders' = SellOrders)
    /\ (g[1].pc = "idle" /\ g'[1].pc = "respond") =>
          (g'[1].result.Success /\ g'[1].result.FilledAmount = g'[1].order.Amount)
    /\ g'[1].pc = "fallback" => g[1].pc = "assign"
    /\ g'[1].pc = "append" => g[1].pc = "fallback"
    /\ g'[1].pc = "respond" =>
          /\ \/ ThresholdExecuted(g[1].pc, g'[1])
             \/ Terminal(g[1].pc, g'[1])
             \/ Resting(g[1].pc, g'[1])
          /\ ~(ThresholdExecuted(g[1].pc, g'[1]) /\ Terminal(g[1].pc, g'[1]))
          /\ ~(ThresholdExecuted(g[1].pc, g'[1]) /\ Resting(g[1].pc, g'[1]))
          /\ ~(Terminal(g[1].pc, g'[1]) /\ Resting(g[1].pc, g'[1]))
          /\ Resting(g[1].pc, g'[1]) =
                (g[1].pc # "idle" /\ g'[1].order.Type = Limit
                    /\ g'[1].result.RemainingAmount > 0)

C25_PhasesInOrder == [][C25_PhaseStep]_vars

\* a limit request answered as Resting after a book fill and a fallback
C25_Witness ==
    /\ g[1].pc = "respond"
    /\ g[1].order.Type = Limit
    /\ g[1].orderbookFilled > 0
    /\ g[1].result.RemainingAmount > 0
    /\ \E i \in 1..Len(Book) : Book[i] = remainingOrder(g[1].order, g[1].result)

\* a call that has started and is not answered yet
Running == g[1].pc \notin {"idle", "respond"}

\* the walk goes forward: the index never goes back, a fill moves it on by one
\* so that no entry is filled twice, and the walk ends only past the last
\* entry, with nothing left to fill, or at a resting price worse than the limit
C28_WalkStep ==
    /\ (g[1].pc \in {"loop", "fill"} /\ g'[1].pc \in {"loop", "fill", "cleanup"}) =>
          (g'[1].i >= g[1].i /\ g'[1].i <= Len(Matched(1)) + 1)
    /\ g[1].pc = "fill" => g'[1].i = g[1].i + 1
    /\ (g[1].pc = "loop" /\ g'[1].pc = "cleanup") =>
          \/ g[1].i > Len(Matched(1))
          \/ g[1].remainingAmount <= 0
          \/ limitBreak(g[1].order, Matched(1)[g[1].i])
    /\ g'[1].pc = "sort" => g[1].pc = "idle"

\* C28: every call that has started is answered, after a walk that visits each
\* opposing entry at most once and stops when nothing is left to fill or at the
\* first resting price worse than the limit (at most one fallback and one
\* insertion follow, in that order)
C28_Terminates ==
    /\ Running ~> (g[1].pc = "respond")
    /\ [][C28_WalkStep]_vars

\* a limit request answered after its walk stopped at a resting price worse
\* than its limit
C28_Witness ==
    /\ g[1].pc = "respond"
    /\ g[1].order.Type = Limit
    /\ g[1].order.Amount > 0
    /\ g[1].i >= 1
    /\ g[1].i <= Len(Matched(1))
    /\ limitBreak(g[1].order, Matched(1)[g[1].i])

====
